---- MODULE Spec2Model ----
(***************************************************************************)
(* Model of shipcat's parallel reconcile (helm/parallel.rs): the batch     *)
(* entry point `reconcile`, which fans jobs out over a thread pool and     *)
(* collects their results over an mpsc channel, and `reconcile_worker`,    *)
(* the per-service job.                                                    *)
(*                                                                         *)
(* Two specifications share the definitions of the job:                    *)
(*   Spec        the batch: dispatch, pool, channel, collection, scan.     *)
(*               A pool thread runs reconcile_worker to completion and     *)
(*               sends the result (jobs share no state, so the run is one  *)
(*               step of the batch).                                       *)
(*   SpecWorker  one job, one statement of reconcile_worker per step.      *)
(*                                                                         *)
(* Manifest resolution (shipcat_filebacked) is a set of pure functions;    *)
(* each of its specifications draws an input and applies them:             *)
(*   SpecBuild          ManifestSource::build, build_simple, build_base,   *)
(*                      coalesce_namespace, and apistatus on a built       *)
(*                      manifest.                                          *)
(*   SpecMerge          ManifestDefaults::merge_source.                    *)
(*   SpecAuthorization  AuthorizationSource::build.                        *)
(***************************************************************************)
EXTENDS Integers, Sequences, FiniteSets, TLC

\* ------------------------------------------------------------------ bounds

MaxJobs == 3
MaxWorkers == 2

\* -------------------------------------------------------------- the domain

\* Services are named 1..MaxJobs; 0 stands for "no service named".
Names == 1..MaxJobs

\* Versions a manifest can pin or the cluster can report.
Versions == {"v1", "v2"}
NoVersion == "none"

\* UpgradeMode: DiffOnly is the one parallel.rs names; the spec's two other
\* modes are apply-without-wait and apply-and-await-rollout.
Modes == {"DiffOnly", "UpgradeNoWait", "UpgradeWait"}

\* Region names handed to reconcile, and the regions the Config knows.
Regions == {"known", "unknown"}
ConfRegions == {"known"}

\* Result<Option<UpgradeData>> of a job. kind is "Some"/"None" for Ok and
\* the error kind for Err; svc is the service an error names (0: none).
\* wait is the duration an UpgradeTimeout carries (NoWait in every other
\* result); a duration is named by the manifest it was computed from.
NoUD == [name |-> 0, version |-> NoVersion, mode |-> "-", exists |-> FALSE]
NoWait == [manifest |-> 0]
NoResult == [tag |-> "-", kind |-> "-", svc |-> 0, wait |-> NoWait]
OkResult(ud) ==
  [tag |-> "Ok", kind |-> IF ud = NoUD THEN "None" ELSE "Some", svc |-> ud.name, wait |-> NoWait]
ErrResult(kind, svc) == [tag |-> "Err", kind |-> kind, svc |-> svc, wait |-> NoWait]

\* ----------------------------------------------------- reconcile_worker

\* The job's local state at entry: tmpmf.name, mode, region; nothing called.
\* tmpmf is the manifest submitted to reconcile, with the version it carries.
WorkerStart(svc, mode, region) ==
  [pc |-> "completed", svc |-> svc, mode |-> mode, region |-> region,
   tmpmf |-> [name |-> svc, version |-> NoVersion],
   version |-> NoVersion, pinned |-> NoVersion,
   queried |-> "-", running |-> NoVersion,
   exists |-> FALSE, fallback |-> NoVersion,
   hfile |-> FALSE, ud |-> NoUD, applied |-> NoUD,
   verifies |-> 0, applies |-> 0, polls |-> 0, notifies |-> 0,
   dumps |-> 0, removes |-> 0,
   upgraded |-> "-", rollout |-> "-", notified |-> "-", dumped |-> "-",
   result |-> NoResult, from |-> "-"]

\* `return r`: the job ends with r.
Ret(s, r) == [s EXCEPT !.pc = "done", !.result = r]

\* `call(..)?` on an Err, and `return Err(e)` of a callee's e: the job ends
\* with the callee's own error, of a kind parallel.rs does not name; `from`
\* records the call it came from.
Propagate(s, call) ==
  [s EXCEPT !.pc = "done", !.result = ErrResult("CalleeError", 0), !.from = call]

\* Manifest::completed(&svc, &conf, &region)?  A fresh manifest is resolved
\* from the service name; it pins a version or not. Resolution needs the
\* region's data and fails for a region the config does not have.
Completed(s) ==
  IF s.region \in ConfRegions
  THEN {[ok |-> TRUE, version |-> v] : v \in Versions \cup {NoVersion}}
       \cup {[ok |-> FALSE, version |-> NoVersion]}
  ELSE {[ok |-> FALSE, version |-> NoVersion]}

\* Mutant: the fresh manifest keeps the version of the submitted one.
StepCompletedKeepsSubmitted(s) ==
  {IF r.ok
   THEN [s EXCEPT !.pc = "regdata", !.pinned = r.version,
                  !.version = IF s.tmpmf.version # NoVersion
                              THEN s.tmpmf.version ELSE r.version]
   ELSE Propagate(s, "completed") : r \in Completed(s)}

\* Lines 69-71: svc = tmpmf.name, and the job's manifest is the one resolved
\* for svc; nothing else of tmpmf is read.
StepCompleted(s) ==
  {IF r.ok
   THEN [s EXCEPT !.pc = "regdata", !.version = r.version, !.pinned = r.version]
   ELSE Propagate(s, "completed") : r \in Completed(s)}

\* Line 73: &conf.regions[&region]; indexing the map by a key it does not
\* hold panics, and the job's thread unwinds without a result.
StepRegdata(s) ==
  {IF s.region \in ConfRegions THEN [s EXCEPT !.pc = "infer"]
   ELSE [s EXCEPT !.pc = "panicked"]}

\* helpers::infer_fallback_version: Ok(running version), or Err when the
\* service is not deployed and also when the query itself fails.
InferFallbackVersion ==
  {[ok |-> TRUE, ver |-> v, why |-> "found"] : v \in Versions}
  \cup {[ok |-> FALSE, ver |-> NoVersion, why |-> w] : w \in {"notdeployed", "queryfailed"}}

\* Mutant: a job without any version goes on instead of returning the
\* MissingRollingVersion error.
InferMatchNoMissing(s, q) ==
  LET t == [s EXCEPT !.queried = q.why, !.running = q.ver] IN
  IF q.ok
  THEN [t EXCEPT !.pc = "override", !.exists = TRUE, !.fallback = q.ver]
  ELSE IF t.mode = "DiffOnly"
       THEN Ret(t, OkResult(NoUD))
       ELSE [t EXCEPT !.pc = "override", !.exists = FALSE, !.fallback = t.version]

\* Mutant: the diff-only return of an install is missing.
InferMatchNoDiffOnly(s, q) ==
  LET t == [s EXCEPT !.queried = q.why, !.running = q.ver] IN
  IF q.ok
  THEN [t EXCEPT !.pc = "override", !.exists = TRUE, !.fallback = q.ver]
  ELSE IF t.version # NoVersion
       THEN [t EXCEPT !.pc = "override", !.exists = FALSE, !.fallback = t.version]
       ELSE Ret(t, ErrResult("MissingRollingVersion", t.svc))

\* Lines 76-90: the match on the query's answer.
InferMatch(s, q) ==
  LET t == [s EXCEPT !.queried = q.why, !.running = q.ver] IN
  IF q.ok
  THEN [t EXCEPT !.pc = "override", !.exists = TRUE, !.fallback = q.ver]
  ELSE IF t.version # NoVersion
       THEN IF t.mode = "DiffOnly"
            THEN Ret(t, OkResult(NoUD))
            ELSE [t EXCEPT !.pc = "override", !.exists = FALSE, !.fallback = t.version]
       ELSE Ret(t, ErrResult("MissingRollingVersion", t.svc))

StepInfer(s) == {InferMatch(s, q) : q \in InferFallbackVersion}

\* Mutant: the running version always replaces the manifest's.
OverrideVersionAlways(s) == s.fallback

\* Lines 94-96: only override the version if the manifest has none.
OverrideVersion(s) ==
  IF s.version = NoVersion THEN s.fallback ELSE s.version

StepOverride(s) == {[s EXCEPT !.pc = "verify", !.version = OverrideVersion(s)]}

\* Line 98: mf.verify(&conf), its error chained as ManifestVerifyFailure(svc).
StepVerify(s) ==
  LET t == [s EXCEPT !.verifies = @ + 1] IN
  {[t EXCEPT !.pc = "values"], Ret(t, ErrResult("ManifestVerifyFailure", t.svc))}

\* Lines 101-102: direct::values renders {svc}.helm.gen.yml; on success the
\* file exists.
StepValues(s) ==
  {[s EXCEPT !.pc = "udnew", !.hfile = TRUE], Propagate(s, "values")}

\* Mutant: diff-only mode yields data to apply like the other modes.
UpgradeDataNewAnyMode(s) ==
  LET data == [name |-> s.svc, version |-> s.version, mode |-> s.mode, exists |-> s.exists] IN
  {[ok |-> FALSE, ud |-> NoUD], [ok |-> TRUE, ud |-> NoUD], [ok |-> TRUE, ud |-> data]}

\* UpgradeData::new(&mf, &hfile, mode, exists): Err, Ok(None) when there is
\* nothing to upgrade, or Ok(Some(data)). Diff-only mode only computes and
\* reports the diff: it never yields data to apply.
UpgradeDataNew(s) ==
  LET data == [name |-> s.svc, version |-> s.version, mode |-> s.mode, exists |-> s.exists] IN
  {[ok |-> FALSE, ud |-> NoUD], [ok |-> TRUE, ud |-> NoUD]}
  \cup (IF s.mode = "DiffOnly" THEN {} ELSE {[ok |-> TRUE, ud |-> data]})

\* Lines 104-105: `?` on the constructor, then `if let Some(ref udata)`.
AfterUpgradeData(s, r) ==
  IF ~r.ok THEN Propagate(s, "udnew")
  ELSE IF r.ud # NoUD THEN [s EXCEPT !.pc = "upgrade", !.ud = r.ud]
  ELSE [s EXCEPT !.pc = "remove", !.ud = NoUD]

StepUpgradeData(s) == {AfterUpgradeData(s, r) : r \in UpgradeDataNew(s)}

\* Mutant: a failed apply is issued once more before the job gives up.
StepUpgradeRetry(s) ==
  LET t == [s EXCEPT !.applies = @ + 1, !.applied = s.ud] IN
  {[t EXCEPT !.pc = "await", !.upgraded = "ok"],
   [t EXCEPT !.pc = IF t.applies < 2 THEN "upgrade" ELSE "debug_apply",
             !.upgraded = "failed"]}

\* Line 107: direct::upgrade(&udata), the apply call; upgraded records its
\* answer.
StepUpgrade(s) ==
  LET t == [s EXCEPT !.applies = @ + 1, !.applied = s.ud] IN
  {[t EXCEPT !.pc = "await", !.upgraded = "ok"],
   [t EXCEPT !.pc = "debug_apply", !.upgraded = "failed"]}

\* Lines 108-113: the apply failed; kube::debug(&mf)? then return Err(e).
\* dumped records the dump's answer.
StepDebugApply(s) ==
  LET t == [s EXCEPT !.dumps = @ + 1] IN
  {Propagate([t EXCEPT !.dumped = "ok"], "upgrade"),
   Propagate([t EXCEPT !.dumped = "failed"], "debug")}

\* Mutant: a rollout that timed out is notified and returned as confirmed.
StepAwaitTimeoutSucceeds(s) ==
  LET t == [s EXCEPT !.polls = @ + 1] IN
  {[t EXCEPT !.pc = "notify_ok", !.rollout = "confirmed"],
   [t EXCEPT !.pc = "notify_ok", !.rollout = "timedout"],
   Propagate([t EXCEPT !.rollout = "error"], "await")}

\* Line 116: kube::await_rollout_status(&mf)? is Ok(true), Ok(false) or Err;
\* rollout records the answer.
StepAwait(s) ==
  LET t == [s EXCEPT !.polls = @ + 1] IN
  {[t EXCEPT !.pc = "notify_ok", !.rollout = "confirmed"],
   [t EXCEPT !.pc = "debug_timeout", !.rollout = "timedout"],
   Propagate([t EXCEPT !.rollout = "error"], "await")}

\* direct::handle_upgrade_notifies(..): the notification goes out or fails.
HandleUpgradeNotifies == {"ok", "failed"}

\* Mutant: a failed notification ends the job with the notification's error.
AfterNotifyPropagates(s, n, next) ==
  IF n = "failed" THEN Propagate([s EXCEPT !.notified = n], "notify") ELSE next

\* Lines 118-121 and 125-128: `let _ = ..map_err(|e| warn!(..))`; the
\* notification's result n is logged and dropped, the job goes on to next.
AfterNotify(s, n, next) == next

\* Lines 118-121: notify success.
StepNotifyOk(s) ==
  {AfterNotify(s, n, [s EXCEPT !.pc = "remove", !.notifies = @ + 1, !.notified = n])
     : n \in HandleUpgradeNotifies}

\* Mutant: a failed dump is logged and the job goes on to its notification.
StepDebugTimeoutSwallows(s) ==
  LET t == [s EXCEPT !.dumps = @ + 1] IN
  {[t EXCEPT !.pc = "notify_fail", !.dumped = "ok"],
   [t EXCEPT !.pc = "notify_fail", !.dumped = "failed"]}

\* Line 124: the rollout timed out; kube::debug(&mf)?.
StepDebugTimeout(s) ==
  LET t == [s EXCEPT !.dumps = @ + 1] IN
  {[t EXCEPT !.pc = "notify_fail", !.dumped = "ok"],
   Propagate([t EXCEPT !.dumped = "failed"], "debug")}

\* mf.estimate_wait_time(): the wait computed from the job's manifest, a
\* function of the manifest alone.
EstimateWaitTime(s) == [manifest |-> s.svc]

\* Line 130: ErrorKind::UpgradeTimeout(mf.name.clone(), mf.estimate_wait_time()).
UpgradeTimeout(svc, wait) == [ErrResult("UpgradeTimeout", svc) EXCEPT !.wait = wait]

\* Lines 125-130: notify failure, then return UpgradeTimeout(name, wait).
StepNotifyFail(s) ==
  {AfterNotify(s, n, Ret([s EXCEPT !.notifies = @ + 1, !.notified = n],
                         UpgradeTimeout(s.svc, EstimateWaitTime(s))))
     : n \in HandleUpgradeNotifies}

\* Lines 135-136: try to remove the temporary file, return Ok(upgrade_opt).
StepRemove(s) ==
  {Ret([s EXCEPT !.removes = @ + 1, !.hfile = h], OkResult(s.ud)) : h \in {FALSE, s.hfile}}

\* One statement of reconcile_worker from state s: the states it can lead to.
WorkerStep(s) ==
  CASE s.pc = "completed" -> StepCompleted(s)
    [] s.pc = "regdata" -> StepRegdata(s)
    [] s.pc = "infer" -> StepInfer(s)
    [] s.pc = "override" -> StepOverride(s)
    [] s.pc = "verify" -> StepVerify(s)
    [] s.pc = "values" -> StepValues(s)
    [] s.pc = "udnew" -> StepUpgradeData(s)
    [] s.pc = "upgrade" -> StepUpgrade(s)
    [] s.pc = "debug_apply" -> StepDebugApply(s)
    [] s.pc = "await" -> StepAwait(s)
    [] s.pc = "notify_ok" -> StepNotifyOk(s)
    [] s.pc = "debug_timeout" -> StepDebugTimeout(s)
    [] s.pc = "notify_fail" -> StepNotifyFail(s)
    [] s.pc = "remove" -> StepRemove(s)
    [] OTHER -> {}

\* reconcile_worker run to its return: every final state it can end in.
RECURSIVE Runs(_)
Runs(s) ==
  IF s.pc \in {"done", "panicked"} THEN {s} ELSE UNION {Runs(t) : t \in WorkerStep(s)}

\* ------------------------------------------------- manifest resolution
\* shipcat_filebacked: ManifestSource::build and its helpers, the merge of
\* ManifestDefaults into a source, AuthorizationSource::build, and the API
\* status report of shipcat_cli's get.rs, which reads built manifests.
\* Fields of the source that build copies through unread are left out.

\* Option<T>: None, or Some(v).
None == <<>>
Some(v) == <<v>>

\* Option::unwrap_or_default, d the type's default.
UnwrapOrDefault(o, d) == IF o = None THEN d ELSE o[1]

\* Option::or.
OptionOr(o, other) == IF o = None THEN other ELSE o

\* Result<T>: Ok(v), or the error of bail!(msg).
Ok(v) == [ok |-> TRUE, val |-> v, err |-> ""]
Bail(msg) == [ok |-> FALSE, val |-> None, err |-> msg]

\* Strings that get formatted are sequences of pieces.
ServiceName == <<"svc">>
ImagePrefixes == {<<"quay.io/org">>}
Images == {<<"custom/image:tag">>}

\* format!("{}/{}", prefix, service)
FormatImage(prefix, service) == prefix \o <<"/">> \o service

\* Merge for Option<T>: the incoming value when it is Some, else the base's.
MergeOption(a, b) == IF b # None THEN b ELSE a

\* Merge for BTreeMap: the base's entries, extended and overwritten by the
\* incoming ones.
MergeMap(a, b) ==
  [k \in DOMAIN a \cup DOMAIN b |-> IF k \in DOMAIN b THEN b[k] ELSE a[k]]

\* #[derive(Merge)] on ManifestDefaults: self.merge(other), field by field.
MergeDefaults(self, other) ==
  [image_prefix |-> MergeOption(self.image_prefix, other.image_prefix),
   chart |-> MergeOption(self.chart, other.chart),
   replica_count |-> MergeOption(self.replica_count, other.replica_count),
   env |-> MergeMap(self.env, other.env)]

\* Mutant: the source's own defaults go beneath the global ones.
MergeSourceSwapped(self, other) ==
  [other EXCEPT !.overrides.defaults = MergeDefaults(other.overrides.defaults, self)]

\* ManifestDefaults::merge_source(self, other): the defaults go beneath the
\* defaults the source carries.
MergeSource(self, other) ==
  [other EXCEPT !.overrides.defaults = MergeDefaults(self, other.overrides.defaults)]

\* The fragments of the unit test `merge`, and the result it asserts.
TestMergeA ==
  [image_prefix |-> Some(<<"alpha">>), chart |-> None, replica_count |-> Some(1),
   env |-> [k \in {"a", "b"} |-> IF k = "a" THEN "default-a" ELSE "default-b"]]
TestMergeB ==
  [image_prefix |-> Some(<<"beta">>), chart |-> Some("default"), replica_count |-> None,
   env |-> [k \in {"b", "c"} |-> IF k = "b" THEN "override-b" ELSE "override-c"]]
TestMergeExpected ==
  [image_prefix |-> Some(<<"beta">>), chart |-> Some("default"), replica_count |-> Some(1),
   env |-> [k \in {"a", "b", "c"} |->
             IF k = "a" THEN "default-a" ELSE IF k = "b" THEN "override-b" ELSE "override-c"]]

\* conf.teams.iter().find(|t| t.name == team_name): the first team of that
\* name, if any.
FindTeam(conf, team_name) ==
  LET idx == {i \in 1..Len(conf.teams) : conf.teams[i].name = team_name} IN
  IF idx = {} THEN None
  ELSE Some(conf.teams[CHOOSE i \in idx : \A j \in idx : i <= j])

\* Mutant: a team without a namespace yields no namespace instead of the
\* region's.
CoalesceNamespaceTeamFirst(conf, reg, team_name) ==
  LET t == FindTeam(conf, team_name) IN
  IF t # None THEN UnwrapOrDefault(t[1].namespace, "") ELSE reg.namespace

\* ManifestSource::coalesce_namespace.
CoalesceNamespace(conf, reg, team_name) ==
  LET t == FindTeam(conf, team_name) IN
  IF t # None
  THEN (IF t[1].namespace # None THEN t[1].namespace[1] ELSE reg.namespace)
  ELSE reg.namespace

\* ManifestSource::build_name.
BuildName(src) ==
  IF src.name # None THEN Ok(src.name[1]) ELSE Bail("name is required")

\* Mutant: the team's contacts always replace the service's own.
BuildMetadataTeamWins(src, name, conf) ==
  IF src.metadata = None THEN Bail("Missing metadata")
  ELSE LET md == src.metadata[1]
           team == FindTeam(conf, md.team) IN
       IF team = None
       THEN Bail("The team name must match one of the team names in shipcat.conf")
       ELSE Ok([md EXCEPT !.support = team[1].support,
                          !.notifications = team[1].notifications])

\* ManifestSource::build_metadata.
BuildMetadata(src, name, conf) ==
  IF src.metadata = None THEN Bail("Missing metadata")
  ELSE LET md == src.metadata[1]
           team == FindTeam(conf, md.team) IN
       IF team = None
       THEN Bail("The team name must match one of the team names in shipcat.conf")
       ELSE Ok([md EXCEPT
                  !.support = IF md.support = None THEN team[1].support ELSE @,
                  !.notifications = IF md.notifications = None
                                    THEN team[1].notifications ELSE @])

\* ManifestSource::build_base.
BuildBase(src, conf) ==
  LET name == BuildName(src) IN
  IF ~name.ok THEN name
  ELSE LET metadata == BuildMetadata(src, name.val, conf) IN
       IF ~metadata.ok THEN metadata
       ELSE Ok([name |-> name.val, regions |-> src.regions, metadata |-> metadata.val])

\* Mutant: the image prefix is tried before the explicit image.
BuildImagePrefixFirst(src, service) ==
  IF src.overrides.defaults.image_prefix # None
  THEN Ok(FormatImage(src.overrides.defaults.image_prefix[1], service))
  ELSE IF src.overrides.image # None THEN Ok(src.overrides.image[1])
  ELSE Bail("Image prefix is not defined")

\* ManifestSource::build_image.
BuildImage(src, service) ==
  IF src.overrides.image # None THEN Ok(src.overrides.image[1])
  ELSE IF src.overrides.defaults.image_prefix # None
       THEN Ok(FormatImage(src.overrides.defaults.image_prefix[1], service))
       ELSE Bail("Image prefix is not defined")

\* Kong::implicits(service, region, hosts): fills in what the gateway entry
\* derives from the service's name, the region and the hosts.
KongImplicits(kong, service, reg, hosts) ==
  [kong EXCEPT !.name = service, !.region = reg.name, !.hosts = hosts]

\* ManifestSource::build_kong.
BuildKong(src, service, reg) ==
  IF src.overrides.kong = None THEN None
  ELSE Some(KongImplicits(src.overrides.kong[1], service, reg,
                          UnwrapOrDefault(src.overrides.hosts, <<>>)))

\* ManifestSource::build_simple.
BuildSimple(src, conf, region) ==
  LET base == BuildBase(src, conf) IN
  IF ~base.ok THEN base
  ELSE LET image == BuildImage(src, base.val.name) IN
       IF ~image.ok THEN image
       ELSE Ok([region |-> region.name,
                enabled |-> ~src.disabled
                            /\ \E i \in 1..Len(base.val.regions) : base.val.regions[i] = region.name,
                external |-> src.external,
                image |-> Some(image.val),
                version |-> src.overrides.version,
                kong |-> BuildKong(src, base.val.name, region),
                base |-> base.val])

\* read_template_file(svc, tmpl): the template of the service's directory if
\* it is there, else the global one, else an error; the content is named by
\* the file it was read from.
ReadTemplateFile(svc, tmpl) ==
  {Ok(<<"services", svc, tmpl>>), Ok(<<"templates", tmpl>>),
   Bail("Template does not exist")}

\* ManifestSource::build_configs: the value of each file is read in, the
\* first read that fails ends the build.
RECURSIVE BuildFiles(_, _)
BuildFiles(files, service) ==
  IF files = <<>> THEN {Ok(<<>>)}
  ELSE UNION {IF ~r.ok THEN {r}
              ELSE {IF ~rest.ok THEN rest
                    ELSE Ok(<<[Head(files) EXCEPT !.value = Some(r.val)]>> \o rest.val)
                      : rest \in BuildFiles(Tail(files), service)}
                : r \in ReadTemplateFile(service, Head(files).name)}

BuildConfigs(src, service) ==
  IF src.overrides.configs = None THEN {Ok(None)}
  ELSE {IF ~f.ok THEN f ELSE Ok(Some([src.overrides.configs[1] EXCEPT !.files = f.val]))
          : f \in BuildFiles(src.overrides.configs[1].files, service)}

\* imageSize: overrides.image_size.or(Some(512)).
DefaultImageSize == 512

\* ManifestSource::build: the Manifest it assembles from the simple
\* manifest, the namespace and the configs.
Assemble(src, reg, simple, namespace, configs) ==
  [name |-> simple.base.name,
   publiclyAccessible |-> UnwrapOrDefault(src.overrides.publicly_accessible, FALSE),
   external |-> simple.external,
   disabled |-> src.disabled,
   regions |-> simple.base.regions,
   metadata |-> Some(simple.base.metadata),
   chart |-> src.overrides.defaults.chart,
   imageSize |-> OptionOr(src.overrides.image_size, Some(DefaultImageSize)),
   image |-> simple.image,
   version |-> simple.version,
   replicaCount |-> src.overrides.defaults.replica_count,
   env |-> src.overrides.defaults.env,
   configs |-> configs,
   kong |-> simple.kong,
   gate |-> src.overrides.gate,
   hosts |-> UnwrapOrDefault(src.overrides.hosts, <<>>),
   region |-> reg.name,
   namespace |-> namespace]

\* ManifestSource::build: every result it can return (the template files
\* it reads decide which).
Build(src, conf, reg) ==
  LET simple == BuildSimple(src, conf, reg) IN
  IF ~simple.ok THEN {simple}
  ELSE LET namespace == CoalesceNamespace(conf, reg, simple.val.base.metadata.team) IN
       {IF ~configs.ok THEN configs
        ELSE Ok(Assemble(src, reg, simple.val, namespace, configs.val))
          : configs \in BuildConfigs(src, simple.val.base.name)}

\* apistatus, lines 180-196: the APIServiceParams of a manifest with a kong
\* entry; a gate entry overwrites publiclyAccessible and websockets.
ApiServiceParams(mf) ==
  LET k == mf.kong[1]
      params == [uris |-> UnwrapOrDefault(k.uris, ""), hosts |-> k.hosts,
                 internal |-> k.internal,
                 publiclyAccessible |-> mf.publiclyAccessible,
                 websockets |-> FALSE] IN
  IF mf.gate # None
  THEN [params EXCEPT !.publiclyAccessible = mf.gate[1].public,
                      !.websockets = mf.gate[1].websockets]
  ELSE params

\* Mutant: allow_invalid_tokens is accepted without allow_anonymous.
AuthorizationBuildNoTokenCheck(src) ==
  LET allowed_audiences == UnwrapOrDefault(src.allowed_audiences, <<>>)
      allow_anonymous == UnwrapOrDefault(src.allow_anonymous, FALSE)
      allow_invalid_tokens == UnwrapOrDefault(src.allow_invalid_tokens, FALSE) IN
  IF allowed_audiences = <<>>
  THEN Bail("allowed_audiences must contain at least one audience")
  ELSE Ok([allowed_audiences |-> allowed_audiences,
           allow_anonymous |-> allow_anonymous,
           allow_invalid_tokens |-> allow_invalid_tokens,
           required_scopes |-> UnwrapOrDefault(src.required_scopes, <<>>),
           allow_cookies |-> UnwrapOrDefault(src.allow_cookies, FALSE)])

\* AuthorizationSource::build.
AuthorizationBuild(src) ==
  LET allowed_audiences == UnwrapOrDefault(src.allowed_audiences, <<>>)
      allow_anonymous == UnwrapOrDefault(src.allow_anonymous, FALSE)
      allow_invalid_tokens == UnwrapOrDefault(src.allow_invalid_tokens, FALSE) IN
  IF allowed_audiences = <<>>
  THEN Bail("allowed_audiences must contain at least one audience")
  ELSE IF allow_invalid_tokens /\ ~allow_anonymous
       THEN Bail("allow_invalid_tokens requires allow_anonymous")
       ELSE Ok([allowed_audiences |-> allowed_audiences,
                allow_anonymous |-> allow_anonymous,
                allow_invalid_tokens |-> allow_invalid_tokens,
                required_scopes |-> UnwrapOrDefault(src.required_scopes, <<>>),
                allow_cookies |-> UnwrapOrDefault(src.allow_cookies, FALSE)])

\* ------------------------------------------------------------------ state

VARIABLES
  svcs,       \* reconcile's svcs: the manifests of the batch, by name
  region,     \* reconcile's region
  umode,      \* reconcile's umode
  n_workers,  \* reconcile's n_workers
  returned,   \* reconcile has returned
  nextIdx,    \* the next element of svcs the dispatch loop hands to the pool
  queue,      \* the pool's job queue (indices into svcs), oldest first
  busy,       \* busy[w]: the job pool thread w is running, 0 when idle
  outcomes,   \* outcomes[i]: the ways job i's reconcile_worker can end; fixed
              \* by (svcs[i].name, umode, region), so computed once
  chan,       \* the completion channel: results sent and not yet received
  rxAlive,    \* the receiver rx exists (until reconcile returns)
  taken,      \* results the collecting iterator has taken off the channel
  res,        \* the Vec of errors collected from the results, in order
  ret,        \* reconcile's return value
  sent,       \* sent[j]: results job j has sent (history)
  ended,      \* ended[j]: how job j's closure ended: "-" not yet, "Ok", the
              \* kind of its error, or "Panicked" (history)
  got,        \* got[j]: results of job j taken off the channel (history)
  firstFatal, \* the job of the first error taken off the channel that is not
              \* a MissingRollingVersion, 0 while there is none (history)
  panics,     \* threads that panicked (history)
  wk,         \* SpecWorker: the local state of the one job it steps
  rs          \* the resolution specifications: the input of one call of a
              \* resolution function, and its result once it returned

vars == <<svcs, region, umode, n_workers, returned, nextIdx, queue, busy, outcomes, chan,
          rxAlive, taken, res, ret, sent, ended, got, firstFatal, panics, wk, rs>>

batchVars == <<svcs, region, umode, n_workers, returned, nextIdx, queue, busy,
               outcomes, chan, rxAlive, taken, res, ret, sent, ended, got, firstFatal, panics>>

\* ------------------------------------------------------------- reconcile

\* Line 20: let n_jobs = svcs.len().
n_jobs == Len(svcs)

\* Mutant: the pool is created one thread too large.
WorkersOneMore == 1..n_workers + 1

\* Line 21: ThreadPool::new(n_workers): the pool's threads.
Workers == 1..n_workers

\* Mutant: the iterator is asked for one result more than there are jobs.
TakeCountOneMore == n_jobs + 1

\* Mutant: the collecting iterator stops one result early.
TakeCountOneLess == IF n_jobs > 0 THEN n_jobs - 1 ELSE 0

\* Line 40: rx.iter().take(n_jobs).
TakeCount == n_jobs

\* Mutant: collection stops at the first error received (an early abort).
ExhaustedAtFirstError == taken >= n_jobs \/ res # <<>>

\* The take(n_jobs) iterator ends once it has yielded n_jobs results, and
\* not before: neither map nor filter_map stops it at an error.
Exhausted == taken >= TakeCount

\* Mutant: the errors are collected newest first.
CollectErrNewestFirst(errs, m) == IF m.res.tag = "Err" THEN <<m>> \o errs ELSE errs

\* Line 47: filter_map(Result::err) keeps the errors, in the order received.
CollectErr(errs, m) == IF m.res.tag = "Err" THEN Append(errs, m) ELSE errs

\* Mutant: a verification failure is ignored as well.
IgnorableOrVerify(m) ==
  m.res.kind \in {"MissingRollingVersion", "ManifestVerifyFailure"}

\* Line 52: the one error kind the scan only warns about.
Ignorable(m) == m.res.kind = "MissingRollingVersion"

\* Lines 50-60: the first error that is not ignorable, Ok(()) if none.
RECURSIVE ScanErrors(_)
ScanErrors(errs) ==
  IF errs = <<>> THEN [tag |-> "Ok", job |-> 0, res |-> NoResult]
  ELSE IF Ignorable(Head(errs)) THEN ScanErrors(Tail(errs))
  ELSE [tag |-> "Err", job |-> Head(errs).job, res |-> Head(errs).res]

\* How reconcile_worker can end for (svc, mode, region): returning a result
\* (pc "done") or panicking.
WorkerOutcomes(svc, mode, reg) ==
  {[pc |-> f.pc, result |-> f.result] : f \in Runs(WorkerStart(svc, mode, reg))}

WorkerIdle == WorkerStart(1, "DiffOnly", "known")

Init ==
  /\ \E n \in 0..MaxJobs : svcs = [i \in 1..n |-> i]
  /\ region \in Regions
  /\ umode \in Modes
  /\ outcomes = [i \in 1..Len(svcs) |-> WorkerOutcomes(svcs[i], umode, region)]
  /\ n_workers \in 1..MaxWorkers
  /\ returned = FALSE
  /\ nextIdx = 1
  /\ queue = <<>>
  /\ busy = [w \in 1..MaxWorkers + 1 |-> 0]
  /\ chan = <<>>
  /\ rxAlive = TRUE
  /\ taken = 0
  /\ res = <<>>
  /\ ret = [tag |-> "-", job |-> 0, res |-> NoResult]
  /\ sent = [j \in Names |-> 0]
  /\ ended = [j \in Names |-> "-"]
  /\ got = [j \in Names |-> 0]
  /\ firstFatal = 0
  /\ panics = 0
  /\ wk = WorkerIdle
  /\ rs = [pc |-> "idle"]

\* Where reconcile is: in the dispatch loop (lines 25-37), waiting on the
\* channel (lines 40-47), about to scan and return (lines 50-60), or returned.
mainPc ==
  IF returned THEN "returned"
  ELSE IF nextIdx <= n_jobs THEN "dispatch"
  ELSE IF ~Exhausted THEN "collect"
  ELSE "scan"

\* Lines 25-37: one turn of `for mf in svcs`: pool.execute queues the job.
Dispatch ==
  /\ mainPc = "dispatch"
  /\ queue' = Append(queue, nextIdx)
  /\ nextIdx' = nextIdx + 1
  /\ UNCHANGED <<svcs, region, umode, n_workers, returned, busy, outcomes, chan, rxAlive,
                 taken, res, ret, sent, ended, got, firstFatal, panics, wk, rs>>

\* An idle pool thread takes the oldest queued job (line 33).
Start(w) ==
  /\ busy[w] = 0
  /\ queue # <<>>
  /\ busy' = [busy EXCEPT ![w] = Head(queue)]
  /\ queue' = Tail(queue)
  /\ UNCHANGED <<svcs, region, umode, n_workers, returned, nextIdx, outcomes, chan, rxAlive,
                 taken, res, ret, sent, ended, got, firstFatal, panics, wk, rs>>

\* Mutant: only a job's success is sent; a job that failed sends nothing.
SendOnlyOk(j, r) ==
  IF r.tag = "Ok"
  THEN /\ chan' = Append(chan, [job |-> j, res |-> r])
       /\ sent' = [sent EXCEPT ![j] = @ + 1]
       /\ panics' = panics
  ELSE UNCHANGED <<chan, sent, panics>>

\* Line 35: tx.send(res).expect(..): the send fails, and the expect panics,
\* only when the receiver is gone.
Send(j, r) ==
  IF rxAlive
  THEN /\ chan' = Append(chan, [job |-> j, res |-> r])
       /\ sent' = [sent EXCEPT ![j] = @ + 1]
       /\ panics' = panics
  ELSE /\ panics' = panics + 1
       /\ UNCHANGED <<chan, sent>>

\* Lines 34-35: the thread runs reconcile_worker and sends what it returns;
\* if reconcile_worker panics the thread unwinds and nothing is sent.
Finish(w) ==
  /\ busy[w] # 0
  /\ \E o \in outcomes[busy[w]] :
       /\ IF o.pc = "done"
          THEN Send(busy[w], o.result)
          ELSE panics' = panics + 1 /\ UNCHANGED <<chan, sent>>
       /\ ended' = [ended EXCEPT ![busy[w]] =
                       IF o.pc # "done" THEN "Panicked"
                       ELSE IF o.result.tag = "Ok" THEN "Ok" ELSE o.result.kind]
  /\ busy' = [busy EXCEPT ![w] = 0]
  /\ UNCHANGED <<svcs, region, umode, n_workers, returned, nextIdx, queue, outcomes, rxAlive,
                 taken, res, ret, got, firstFatal, wk, rs>>

\* Lines 40-47: the iterator takes the next result off the channel, logs it
\* and keeps it if it is an error.
Receive ==
  /\ mainPc = "collect"
  /\ chan # <<>>
  /\ chan' = Tail(chan)
  /\ taken' = taken + 1
  /\ res' = CollectErr(res, Head(chan))
  /\ got' = [got EXCEPT ![Head(chan).job] = @ + 1]
  /\ firstFatal' = IF /\ firstFatal = 0
                      /\ Head(chan).res.tag = "Err"
                      /\ Head(chan).res.kind # "MissingRollingVersion"
                   THEN Head(chan).job ELSE firstFatal
  /\ UNCHANGED <<svcs, region, umode, n_workers, returned, nextIdx, queue, busy,
                 outcomes, rxAlive, ret, sent, ended, panics, wk, rs>>

\* Lines 50-61: take(n_jobs) is exhausted; scan the collected errors and
\* return. tx, rx and the pool are dropped.
Return ==
  /\ mainPc = "scan"
  /\ ret' = ScanErrors(res)
  /\ returned' = TRUE
  /\ rxAlive' = FALSE
  /\ UNCHANGED <<svcs, region, umode, n_workers, nextIdx, queue, busy, outcomes, chan,
                 taken, res, sent, ended, got, firstFatal, panics, wk, rs>>

Next ==
  \/ Dispatch
  \/ \E w \in Workers : Start(w)
  \/ \E w \in Workers : Finish(w)
  \/ Receive
  \/ Return

Spec == Init /\ [][Next]_vars

\* The scheduler runs a thread that can take a step: the pool's threads and
\* reconcile's own thread do not all stop while one of them can go on, and
\* every external call returns.
Fairness == WF_vars(Next)

FairSpec == Init /\ [][Next]_vars /\ Fairness

\* ---------------------------------------------------- one job, stepwise

InitWorker ==
  /\ svcs = <<>> /\ region = "known" /\ umode = "DiffOnly" /\ n_workers = 1
  /\ returned = TRUE /\ nextIdx = 1 /\ queue = <<>> /\ outcomes = <<>>
  /\ busy = [w \in 1..MaxWorkers + 1 |-> 0]
  /\ chan = <<>> /\ rxAlive = FALSE /\ taken = 0 /\ res = <<>>
  /\ ret = [tag |-> "Ok", job |-> 0, res |-> NoResult]
  /\ sent = [j \in Names |-> 0] /\ ended = [j \in Names |-> "-"]
  /\ got = [j \in Names |-> 0]
  /\ firstFatal = 0 /\ panics = 0
  /\ \E svc \in Names, mode \in Modes, reg \in Regions, v \in Versions \cup {NoVersion} :
       wk = [WorkerStart(svc, mode, reg) EXCEPT !.tmpmf.version = v]
  /\ rs = [pc |-> "idle"]

WCompleted == wk.pc = "completed" /\ wk' \in StepCompleted(wk) /\ UNCHANGED <<batchVars, rs>>
WRegdata == wk.pc = "regdata" /\ wk' \in StepRegdata(wk) /\ UNCHANGED <<batchVars, rs>>
WInfer == wk.pc = "infer" /\ wk' \in StepInfer(wk) /\ UNCHANGED <<batchVars, rs>>
WOverride == wk.pc = "override" /\ wk' \in StepOverride(wk) /\ UNCHANGED <<batchVars, rs>>
WVerify == wk.pc = "verify" /\ wk' \in StepVerify(wk) /\ UNCHANGED <<batchVars, rs>>
WValues == wk.pc = "values" /\ wk' \in StepValues(wk) /\ UNCHANGED <<batchVars, rs>>
WUpgradeData == wk.pc = "udnew" /\ wk' \in StepUpgradeData(wk) /\ UNCHANGED <<batchVars, rs>>
WUpgrade == wk.pc = "upgrade" /\ wk' \in StepUpgrade(wk) /\ UNCHANGED <<batchVars, rs>>
WDebugApply == wk.pc = "debug_apply" /\ wk' \in StepDebugApply(wk) /\ UNCHANGED <<batchVars, rs>>
WAwait == wk.pc = "await" /\ wk' \in StepAwait(wk) /\ UNCHANGED <<batchVars, rs>>
WNotifyOk == wk.pc = "notify_ok" /\ wk' \in StepNotifyOk(wk) /\ UNCHANGED <<batchVars, rs>>
WDebugTimeout == wk.pc = "debug_timeout" /\ wk' \in StepDebugTimeout(wk) /\ UNCHANGED <<batchVars, rs>>
WNotifyFail == wk.pc = "notify_fail" /\ wk' \in StepNotifyFail(wk) /\ UNCHANGED <<batchVars, rs>>
WRemove == wk.pc = "remove" /\ wk' \in StepRemove(wk) /\ UNCHANGED <<batchVars, rs>>

WorkerNext ==
  \/ WCompleted \/ WRegdata \/ WInfer \/ WOverride \/ WVerify \/ WValues
  \/ WUpgradeData \/ WUpgrade \/ WDebugApply \/ WAwait \/ WNotifyOk
  \/ WDebugTimeout \/ WNotifyFail \/ WRemove

SpecWorker == InitWorker /\ [][WorkerNext]_vars

\* ------------------------------------------------- resolution, stepwise

\* What the model draws the inputs of a resolution from.
OptBool == {None, Some(TRUE), Some(FALSE)}
TheRegion == [name |-> "dev", namespace |-> "region-ns"]
Teams ==
  {[name |-> "t1", namespace |-> ns, support |-> c, notifications |-> c]
     : ns \in {None, Some("team-ns")}, c \in {None, Some("team-contact")}}
Confs == {[teams |-> <<>>]} \cup {[teams |-> <<t>>] : t \in Teams}
Metadatas ==
  {None, Some([team |-> "t2", support |-> None, notifications |-> None])}
  \cup {Some([team |-> "t1", support |-> s, notifications |-> n])
          : s \in {None, Some("own-support")}, n \in {None, Some("own-notifications")}}
Gates == {None} \cup {Some([public |-> p, websockets |-> FALSE]) : p \in BOOLEAN}
Kongs ==
  {None, Some([uris |-> Some("/api"), internal |-> FALSE,
               name |-> <<>>, region |-> "", hosts |-> <<>>])}
Configss == {None, Some([mount |-> "/config", files |-> <<[name |-> "env.j2", value |-> None]>>])}
NoDefaults == [image_prefix |-> None, chart |-> None, replica_count |-> None, env |-> <<>>]

\* A ManifestSource with the given fields, the others at their defaults.
SourceOf(name, metadata, disabled, regions, image, image_prefix, publicly_accessible, gate, kong, configs) ==
  [name |-> name, external |-> FALSE, disabled |-> disabled, regions |-> regions,
   metadata |-> metadata,
   overrides |->
     [publicly_accessible |-> publicly_accessible, image |-> image, image_size |-> None,
      version |-> None, configs |-> configs, kong |-> kong, gate |-> gate, hosts |-> None,
      defaults |-> [NoDefaults EXCEPT !.image_prefix = image_prefix]]]

\* Sources that vary in identity and image, and sources of a well-formed
\* service that vary in what they expose.
IdentitySources ==
  {SourceOf(n, md, d, rg, im, ip, None, None, None, None)
     : n \in {None, Some(ServiceName)}, md \in Metadatas, d \in BOOLEAN,
       rg \in {<<>>, <<"dev">>},
       im \in {None} \cup {Some(i) : i \in Images},
       ip \in {None} \cup {Some(p) : p \in ImagePrefixes}}
ExposureSources ==
  {SourceOf(Some(ServiceName), Some([team |-> "t1", support |-> None, notifications |-> None]),
            FALSE, <<"dev">>, None, Some(p), pa, g, k, c)
     : p \in ImagePrefixes, pa \in OptBool, g \in Gates, k \in Kongs, c \in Configss}

\* The batch and the job at rest, for the specifications that do not run them.
BatchAtRest ==
  /\ svcs = <<>> /\ region = "known" /\ umode = "DiffOnly" /\ n_workers = 1
  /\ returned = TRUE /\ nextIdx = 1 /\ queue = <<>> /\ outcomes = <<>>
  /\ busy = [w \in 1..MaxWorkers + 1 |-> 0]
  /\ chan = <<>> /\ rxAlive = FALSE /\ taken = 0 /\ res = <<>>
  /\ ret = [tag |-> "Ok", job |-> 0, res |-> NoResult]
  /\ sent = [j \in Names |-> 0] /\ ended = [j \in Names |-> "-"]
  /\ got = [j \in Names |-> 0]
  /\ firstFatal = 0 /\ panics = 0
  /\ wk = WorkerIdle

InitBuild ==
  /\ BatchAtRest
  /\ \E src \in IdentitySources \cup ExposureSources, conf \in Confs :
       rs = [pc |-> "input", call |-> "-", src |-> src, conf |-> conf, reg |-> TheRegion,
             arg |-> "", out |-> Ok(None), params |-> None]

\* One call of a resolution function on the input, its result in out.
Returned(call, out) == rs' = [rs EXCEPT !.pc = "done", !.call = call, !.out = out]

RBuildBase ==
  /\ rs.pc = "input" /\ Returned("build_base", BuildBase(rs.src, rs.conf))
  /\ UNCHANGED <<batchVars, wk>>

RBuildSimple ==
  /\ rs.pc = "input" /\ Returned("build_simple", BuildSimple(rs.src, rs.conf, rs.reg))
  /\ UNCHANGED <<batchVars, wk>>

RBuild ==
  /\ rs.pc = "input"
  /\ \E out \in Build(rs.src, rs.conf, rs.reg) : Returned("build", out)
  /\ UNCHANGED <<batchVars, wk>>

\* coalesce_namespace on its own, for a team name of any kind.
RCoalesceNamespace ==
  /\ rs.pc = "input"
  /\ \E team_name \in {"t1", "t2"} :
       rs' = [rs EXCEPT !.pc = "done", !.call = "coalesce_namespace", !.arg = team_name,
                        !.out = Ok(CoalesceNamespace(rs.conf, rs.reg, team_name))]
  /\ UNCHANGED <<batchVars, wk>>

\* apistatus reads a manifest that was loaded and built, and reports its
\* kong entry.
RApistatus ==
  /\ rs.pc = "done" /\ rs.call = "build" /\ rs.out.ok /\ rs.out.val.kong # None
  /\ rs' = [rs EXCEPT !.pc = "reported", !.params = Some(ApiServiceParams(rs.out.val))]
  /\ UNCHANGED <<batchVars, wk>>

BuildNext == RBuildBase \/ RBuildSimple \/ RBuild \/ RCoalesceNamespace \/ RApistatus

SpecBuild == InitBuild /\ [][BuildNext]_vars

\* Fragments of defaults to merge.
EnvKeys == {"a", "b"}
EnvValues == {"x", "y"}
Envs == UNION {[ks -> EnvValues] : ks \in SUBSET EnvKeys}
Fragments ==
  [image_prefix : {None, Some(<<"alpha">>), Some(<<"beta">>)},
   chart : {None, Some("default")},
   replica_count : {None, Some(1)},
   env : Envs]

InitMerge ==
  /\ BatchAtRest
  /\ \E a \in Fragments, b \in Fragments :
       rs = [pc |-> "input", defaults |-> a,
             src |-> [SourceOf(Some(ServiceName), None, FALSE, <<>>, None, None,
                               None, None, None, None)
                        EXCEPT !.overrides.defaults = b],
             out |-> None]

RMergeSource ==
  /\ rs.pc = "input"
  /\ rs' = [rs EXCEPT !.pc = "done", !.out = Some(MergeSource(rs.defaults, rs.src))]
  /\ UNCHANGED <<batchVars, wk>>

SpecMerge == InitMerge /\ [][RMergeSource]_vars

\* Authorization sources to build.
AuthorizationSources ==
  [allowed_audiences : {None, Some(<<>>), Some(<<"aud">>)},
   allow_anonymous : OptBool,
   allow_invalid_tokens : OptBool,
   required_scopes : {None, Some(<<"scope">>)},
   allow_cookies : OptBool]

InitAuthorization ==
  /\ BatchAtRest
  /\ \E src \in AuthorizationSources : rs = [pc |-> "input", src |-> src, out |-> Ok(None)]

RAuthorizationBuild ==
  /\ rs.pc = "input"
  /\ rs' = [rs EXCEPT !.pc = "done", !.out = AuthorizationBuild(rs.src)]
  /\ UNCHANGED <<batchVars, wk>>

SpecAuthorization == InitAuthorization /\ [][RAuthorizationBuild]_vars

\* ------------------------------------------------------------ the claims

\* The jobs of the batch, and those a pool thread is running.
Jobs == 1..n_jobs
Running == {busy[w] : w \in DOMAIN busy} \ {0}

\* Job j ended with an error the scan does not ignore.
EndedFatal(j) == ended[j] \notin {"-", "Ok", "MissingRollingVersion", "Panicked"}

\* C1: once reconcile has returned, it returned Ok(()) if and only if no job
\* of the batch ended with an error other than MissingRollingVersion.
C1_SuccessIffNoFatal ==
  mainPc = "returned" => (ret.tag = "Ok" <=> \A j \in Jobs : ~EndedFatal(j))

\* C1's case: a batch that returned Ok although a job ended with
\* MissingRollingVersion, next to a job that succeeded.
C1_Witness ==
  /\ mainPc = "returned" /\ ret.tag = "Ok"
  /\ \E j, k \in Jobs : ended[j] = "MissingRollingVersion" /\ ended[k] = "Ok"

\* C2: reconcile has not returned (nor begun its scan) while a job of the
\* batch is still queued, running, or has a result not yet received: every
\* job has sent its result and reconcile has taken it.
C2_ReturnsAfterAllJobs ==
  mainPc \in {"scan", "returned"} =>
    /\ queue = <<>> /\ Running = {}
    /\ \A j \in Jobs : ended[j] # "-" /\ sent[j] = 1 /\ got[j] = 1

\* C2's case: a fatal error has already been received while another job is
\* still waiting in the pool's queue.
C2_Witness == firstFatal # 0 /\ queue # <<>> /\ mainPc = "collect"

\* C3: the error reconcile returns is the first non-ignorable error that
\* came off the channel, the one of the job that sent it, whatever the
\* job's place in the batch; with no such error it returns Ok(()).
C3_FirstReceivedFatal ==
  mainPc = "returned" =>
    IF firstFatal = 0 THEN ret.tag = "Ok"
    ELSE /\ ret.tag = "Err" /\ ret.job = firstFatal
         /\ ret.res.tag = "Err" /\ ret.res.kind = ended[firstFatal]

\* C3's case: two jobs ended with fatal errors and the one returned is of
\* the job submitted later.
C3_Witness ==
  /\ mainPc = "returned" /\ ret.tag = "Err"
  /\ \E j \in Jobs : j < ret.job /\ EndedFatal(j)

C6_State ==
  /\ Cardinality(Running) <= n_workers
  /\ mainPc = "dispatch" => ENABLED Dispatch
  /\ nextIdx <= n_jobs => taken = 0 /\ ~returned
  /\ \A j \in Jobs : j < nextIdx <=>
       (ended[j] # "-" \/ j \in Running \/ \E i \in DOMAIN queue : queue[i] = j)

C6_BoundedPool ==
  /\ []C6_State
  /\ [][\A j \in Names : (j \in Running' /\ j \notin Running) =>
          Cardinality(Running) < n_workers]_vars

\* C6's case: every worker is busy and a job waits in the queue.
C6_Witness == Cardinality(Running) = n_workers /\ queue # <<>>

\* C7: once the apply call is issued, the data applied carries the pinned
\* version if the manifest pinned one and the cluster's running version
\* otherwise, and is an upgrade exactly when the query found the service.
C7_VersionAndOperation ==
  wk.applies >= 1 =>
    /\ wk.applied.version # NoVersion
    /\ wk.applied.version = (IF wk.pinned # NoVersion THEN wk.pinned ELSE wk.running)
    /\ wk.applied.exists = (wk.queried = "found")
    /\ wk.applied.name = wk.svc

\* C7's case: an apply of a pinned version that differs from the running one.
C7_Witness ==
  /\ wk.applies >= 1 /\ wk.pinned # NoVersion
  /\ wk.queried = "found" /\ wk.running # wk.pinned

\* C8: a job with no pinned version whose service is not deployed has ended
\* with MissingRollingVersion(svc) and made no verify, apply, poll or
\* notification call.
C8_MissingRollingVersion ==
  (wk.pinned = NoVersion /\ wk.queried = "notdeployed") =>
    /\ wk.pc = "done"
    /\ wk.result = ErrResult("MissingRollingVersion", wk.svc)
    /\ wk.verifies = 0 /\ wk.applies = 0 /\ wk.polls = 0 /\ wk.notifies = 0

\* C8's case: such a job, in a mode that applies.
C8_Witness ==
  /\ wk.pc = "done" /\ wk.pinned = NoVersion /\ wk.queried = "notdeployed"
  /\ wk.mode = "UpgradeWait"

\* C9 as stated: in diff-only mode a job whose service is not deployed and
\* whose manifest has no version ends Ok(None).
C9_Original ==
  (wk.mode = "DiffOnly" /\ wk.pc = "done" /\ wk.queried = "notdeployed"
     /\ wk.pinned = NoVersion) =>
    wk.result = OkResult(NoUD)

\* C9 amended: in diff-only mode a job whose service is not found ends
\* Ok(None), with nothing verified, rendered or applied, when its manifest
\* pins a version, and with MissingRollingVersion when it pins none.
C9_DiffOnlyInstall ==
  (wk.mode = "DiffOnly" /\ wk.queried \in {"notdeployed", "queryfailed"}) =>
    /\ wk.pc = "done"
    /\ wk.verifies = 0 /\ ~wk.hfile /\ wk.applies = 0
    /\ IF wk.pinned # NoVersion
       THEN wk.result = OkResult(NoUD)
       ELSE wk.result = ErrResult("MissingRollingVersion", wk.svc)

\* C9's case: a diff-only job with a pinned version, service not deployed.
C9_Witness ==
  /\ wk.mode = "DiffOnly" /\ wk.pc = "done" /\ wk.queried = "notdeployed"
  /\ wk.pinned # NoVersion

\* The state of the upgrade state machine a job is in.
JobState(s) ==
  IF s.applies = 0 THEN "Pending"
  ELSE IF s.pc = "await" THEN (IF s.applied.exists THEN "Upgrading" ELSE "Installing")
  ELSE IF s.pc = "debug_apply" \/ (s.polls = 0 /\ s.pc = "done") THEN "Failed"
  ELSE IF s.pc \in {"debug_timeout", "notify_fail"} THEN "TimedOut"
  ELSE IF s.pc = "done" /\ s.result.tag = "Err" THEN
         (IF s.from = "await" THEN "Failed" ELSE "TimedOut")
  ELSE "Succeeded"

C11_ApplyFailureEndsFailed ==
  /\ wk.applies <= 1
  /\ wk.upgraded = "failed" =>
       /\ wk.pc \in {"debug_apply", "done"}
       /\ JobState(wk) = "Failed"
       /\ wk.polls = 0 /\ wk.notifies = 0
       /\ wk.pc = "done" => wk.result.tag = "Err" /\ wk.dumps = 1

\* C11's case: a job whose apply failed, after its dump, returned the
\* apply's error.
C11_Witness ==
  /\ wk.pc = "done" /\ wk.upgraded = "failed" /\ wk.applies = 1
  /\ wk.dumps = 1 /\ wk.from = "upgrade"

\* A job whose apply succeeded and whose rollout poll answered "not
\* complete before the deadline".
RolloutTimedOut(s) == s.upgraded = "ok" /\ s.rollout = "timedout"

\* C12, as stated: every job whose apply succeeds and whose rollout is not
\* confirmed before the deadline ends with UpgradeTimeout carrying the
\* service name and the manifest's estimated wait, after one dump request
\* and one notification attempt.
C12_Original ==
  (wk.pc = "done" /\ RolloutTimedOut(wk)) =>
    /\ wk.result = UpgradeTimeout(wk.svc, EstimateWaitTime(wk))
    /\ wk.dumps = 1 /\ wk.notifies = 1

\* C12's failing case: the rollout timed out, the dump call failed, and the
\* job returned the dump's error without a notification.
C12_Witness ==
  /\ wk.pc = "done" /\ RolloutTimedOut(wk) /\ wk.from = "debug"
  /\ wk.result.kind # "UpgradeTimeout" /\ wk.notifies = 0

\* C13: a failure of the notification call never changes the outcome: a job
\* that attempted its notification returns success (with its upgrade data)
\* when the rollout was confirmed and UpgradeTimeout when it timed out,
\* whether the notification went out or failed.
C13_NotifyFailureSwallowed ==
  (wk.pc = "done" /\ wk.notified # "-") =>
    /\ wk.notifies = 1
    /\ wk.rollout = "confirmed" => wk.result = OkResult(wk.ud)
    /\ wk.rollout = "timedout" => wk.result = UpgradeTimeout(wk.svc, EstimateWaitTime(wk))
    /\ wk.rollout \in {"confirmed", "timedout"}
    /\ wk.from = "-"

\* C13's case: a confirmed rollout whose notification failed, and the job
\* returned success.
C13_Witness ==
  /\ wk.pc = "done" /\ wk.notified = "failed" /\ wk.rollout = "confirmed"
  /\ wk.result.tag = "Ok" /\ wk.result.kind = "Some"

\* The job rendered its temporary values file: the file is there, or a
\* removal was attempted (only a removal takes it away).
Rendered(s) == s.hfile \/ s.removes > 0

\* C14, as stated: every job that rendered the temporary values file has
\* attempted its removal by the time it ends, whatever the outcome.
C14_Original ==
  (wk.pc = "done" /\ Rendered(wk)) => wk.removes >= 1

\* C14's failing case: the file was rendered, the apply failed, and the job
\* ended without a removal attempt, the file still there.
C14_Witness ==
  /\ wk.pc = "done" /\ wk.hfile /\ wk.removes = 0 /\ wk.upgraded = "failed"

\* The single-valued fields of a fragment of defaults.
SingleValued == {"image_prefix", "chart", "replica_count"}

\* C15: for all fragments a (the base) and b (the incoming one, the
\* source's own defaults), the merge has in every single-valued field b's
\* value when b specifies one and a's otherwise, and its mapping is the
\* key-wise union of a's and b's in which b's value wins on a shared key;
\* nothing else of the source changes. The model's merge yields the result
\* the unit test asserts.
C15_MergePrecedence ==
  /\ MergeDefaults(TestMergeA, TestMergeB) = TestMergeExpected
  /\ rs.pc = "done" =>
       LET a == rs.defaults
           b == rs.src.overrides.defaults
           m == rs.out[1].overrides.defaults IN
       /\ \A f \in SingleValued : m[f] = IF b[f] # None THEN b[f] ELSE a[f]
       /\ DOMAIN m.env = DOMAIN a.env \cup DOMAIN b.env
       /\ \A k \in DOMAIN m.env : m.env[k] = IF k \in DOMAIN b.env THEN b.env[k] ELSE a.env[k]
       /\ [rs.out[1] EXCEPT !.overrides.defaults = b] = rs.src

\* C15's case: both fragments give an image prefix and a value for key
\* "a", and they differ; only the base gives a chart and key "b".
C15_Witness ==
  /\ rs.pc = "done"
  /\ rs.defaults.image_prefix = Some(<<"alpha">>)
  /\ rs.src.overrides.defaults.image_prefix = Some(<<"beta">>)
  /\ rs.out[1].overrides.defaults.image_prefix = Some(<<"beta">>)
  /\ rs.defaults.chart # None /\ rs.src.overrides.defaults.chart = None
  /\ rs.out[1].overrides.defaults.chart = rs.defaults.chart
  /\ DOMAIN rs.defaults.env = {"a", "b"} /\ DOMAIN rs.src.overrides.defaults.env = {"a"}
  /\ rs.defaults.env["a"] = "x" /\ rs.src.overrides.defaults.env["a"] = "y"
  /\ rs.out[1].overrides.defaults.env["a"] = "y"

\* The teams of the config that bear the name n.
TeamsNamed(conf, n) == {conf.teams[i] : i \in {j \in 1..Len(conf.teams) : conf.teams[j].name = n}}

\* The namespace the rule of C16 gives for a team name.
NamespaceRule(conf, reg, n, ns) ==
  IF TeamsNamed(conf, n) # {} /\ \A tm \in TeamsNamed(conf, n) : tm.namespace # None
  THEN \E tm \in TeamsNamed(conf, n) : ns = tm.namespace[1]
  ELSE ns = reg.namespace

\* C16: the namespace of a built Manifest is the team's namespace if and
\* only if the service's team is in the config and defines a namespace, and
\* the region's namespace in every other case; coalesce_namespace follows the
\* same rule for a team name the config does not have.
C16_NamespaceCoalescing ==
  /\ (rs.pc \in {"done", "reported"} /\ rs.call = "build" /\ rs.out.ok) =>
       NamespaceRule(rs.conf, rs.reg, rs.src.metadata[1].team, rs.out.val.namespace)
  /\ (rs.pc = "done" /\ rs.call = "coalesce_namespace") =>
       NamespaceRule(rs.conf, rs.reg, rs.arg, rs.out.val)

\* C16's case: a Manifest built for a service whose team defines a
\* namespace, which the Manifest has.
C16_Witness ==
  /\ rs.pc = "done" /\ rs.call = "build" /\ rs.out.ok
  /\ rs.conf.teams # <<>> /\ rs.conf.teams[1].namespace = Some("team-ns")
  /\ rs.out.val.namespace = "team-ns"

\* C17, as stated: build never returns a Manifest that has a gate block
\* whose public flag differs from publiclyAccessible.
C17_Original ==
  (rs.pc \in {"done", "reported"} /\ rs.call = "build" /\ rs.out.ok /\ rs.out.val.gate # None) =>
    rs.out.val.gate[1].public = rs.out.val.publiclyAccessible

\* C17's failing case: build returned a Manifest whose gate is public while
\* publiclyAccessible is false, and the API status report took the gate's
\* flag for it.
C17_Witness ==
  /\ rs.pc = "reported" /\ rs.out.ok
  /\ rs.out.val.gate # None /\ rs.out.val.gate[1].public
  /\ ~rs.out.val.publiclyAccessible
  /\ rs.params[1].publiclyAccessible

\* C18: building an authorization fails whenever the audiences are absent
\* or empty, and whenever allow_invalid_tokens is true while allow_anonymous
\* is false or absent; every Authorization built has an audience and
\* satisfies allow_invalid_tokens => allow_anonymous.
C18_AuthorizationBuild ==
  rs.pc = "done" =>
    /\ rs.src.allowed_audiences \in {None, Some(<<>>)} => ~rs.out.ok
    /\ (rs.src.allow_invalid_tokens = Some(TRUE) /\ rs.src.allow_anonymous # Some(TRUE))
         => ~rs.out.ok
    /\ rs.out.ok =>
         /\ Len(rs.out.val.allowed_audiences) > 0
         /\ rs.out.val.allowed_audiences = rs.src.allowed_audiences[1]
         /\ rs.out.val.allow_invalid_tokens => rs.out.val.allow_anonymous

\* C18's case: a source with an audience that allows invalid tokens and
\* leaves allow_anonymous unset, refused.
C18_Witness ==
  /\ rs.pc = "done" /\ ~rs.out.ok
  /\ rs.src.allowed_audiences = Some(<<"aud">>)
  /\ rs.src.allow_invalid_tokens = Some(TRUE) /\ rs.src.allow_anonymous = None
  /\ rs.out.err = "allow_invalid_tokens requires allow_anonymous"

\* A call of the simple or the full resolution has returned.
Resolved == rs.pc \in {"done", "reported"} /\ rs.call \in {"build_simple", "build"}

\* C19: in the simple and in the full resolution, the image is the explicit
\* image when the source gives one, otherwise prefix/name when it gives an
\* image prefix, and the resolution fails when it gives neither.
C19_ImageResolution ==
  Resolved =>
    LET image == rs.src.overrides.image
        prefix == rs.src.overrides.defaults.image_prefix IN
    /\ (image = None /\ prefix = None) => ~rs.out.ok
    /\ rs.out.ok =>
         rs.out.val.image =
           IF image # None THEN image
           ELSE Some(<<prefix[1][1], "/", rs.src.name[1][1]>>)

\* C19's case: the full resolution of a source without an explicit image,
\* whose image is built from the prefix.
C19_Witness ==
  /\ rs.pc = "done" /\ rs.call = "build" /\ rs.out.ok
  /\ rs.src.overrides.image = None
  /\ rs.out.val.image = Some(<<"quay.io/org", "/", "svc">>)

\* The metadata of the identity a call returned.
IdentityMetadata ==
  IF rs.call = "build_base" THEN rs.out.val.metadata
  ELSE IF rs.call = "build_simple" THEN rs.out.val.base.metadata
  ELSE rs.out.val.metadata[1]

\* C20: building the identity fails when the name is absent, when the
\* metadata is absent, and when the metadata's team is not a team of the
\* config; when it succeeds, support and notifications are the service's own
\* where it gives them and the team's otherwise.
C20_Identity ==
  (rs.pc \in {"done", "reported"} /\ rs.call \in {"build_base", "build_simple", "build"}) =>
    /\ rs.src.name = None => (~rs.out.ok /\ rs.out.err = "name is required")
    /\ rs.src.metadata = None => ~rs.out.ok
    /\ (rs.src.metadata # None /\ TeamsNamed(rs.conf, rs.src.metadata[1].team) = {})
         => ~rs.out.ok
    /\ rs.out.ok =>
         LET own == rs.src.metadata[1]
             md == IdentityMetadata IN
         \E tm \in TeamsNamed(rs.conf, own.team) :
           /\ md.team = own.team
           /\ md.support = IF own.support # None THEN own.support ELSE tm.support
           /\ md.notifications =
                IF own.notifications # None THEN own.notifications ELSE tm.notifications

\* C20's case: an identity built for a service that gives its own support
\* contact and no notifications, which it gets from its team.
C20_Witness ==
  /\ rs.pc = "done" /\ rs.call = "build_base" /\ rs.out.ok
  /\ rs.src.metadata[1].support = Some("own-support")
  /\ rs.src.metadata[1].notifications = None
  /\ rs.out.val.metadata.support = Some("own-support")
  /\ rs.out.val.metadata.notifications = Some("team-contact")

C22_Original ==
  wk.queried = "queryfailed" =>
    /\ wk.pc = "done"
    /\ wk.result.tag = "Err" /\ wk.result.kind # "MissingRollingVersion"
    /\ wk.applies = 0

\* C22's failing case: the query failed, the manifest pins a version, and
\* the job applied it as an install.
C22_Witness ==
  /\ wk.queried = "queryfailed" /\ wk.pinned # NoVersion
  /\ wk.applies = 1 /\ ~wk.applied.exists

\* C23, as stated: only a job in apply-and-await-rollout mode polls the
\* rollout; a job in apply-without-wait mode never polls and never ends with
\* UpgradeTimeout.
C23_Original ==
  /\ wk.polls > 0 => wk.mode = "UpgradeWait"
  /\ wk.mode = "UpgradeNoWait" => wk.result.kind # "UpgradeTimeout"

\* C23's failing case: a job in apply-without-wait mode polled the rollout
\* and ended with UpgradeTimeout.
C23_Witness ==
  /\ wk.mode = "UpgradeNoWait" /\ wk.pc = "done" /\ wk.polls = 1
  /\ wk.result.kind = "UpgradeTimeout"

\* C24: whenever a job is still to send its result the receiver exists and
\* reconcile has not returned, so no send fails: every panic there is, is a
\* job's own, and every job that ended with a result has sent it.
C24_ReceiverOutlivesSenders ==
  /\ (\E j \in Jobs : ended[j] = "-") => (rxAlive /\ ~returned)
  /\ panics = Cardinality({j \in Jobs : ended[j] = "Panicked"})
  /\ \A j \in Jobs : ended[j] \notin {"-", "Panicked"} => sent[j] = 1

\* C24's case: a result has been taken, another waits in the channel, and a
\* job is still running.
C24_Witness ==
  /\ taken >= 1 /\ chan # <<>> /\ Running # {} /\ rxAlive

\* C25: a job whose diagnostic dump failed has returned the dump's error:
\* not the apply's error after an apply failure, and after a rollout timeout
\* not UpgradeTimeout, with no notification attempted.
C25_DumpErrorReplaces ==
  wk.dumped = "failed" =>
    /\ wk.pc = "done" /\ wk.result.tag = "Err"
    /\ wk.from = "debug"
    /\ wk.result.kind # "UpgradeTimeout"
    /\ wk.notifies = 0

\* C25's case: the rollout timed out and the dump failed.
C25_Witness ==
  /\ wk.dumped = "failed" /\ wk.rollout = "timedout" /\ wk.pc = "done"

====
